---- MODULE Spec2Model ----
(***************************************************************************)
(* Model of ext/glfm_markdown/src/glfm.rs (gitlab-glfm-markdown 0.0.33):   *)
(* the placeholder matcher PLACEHOLDER_REGEX, the five node overrides      *)
(* registered with create_formatter! (render_text, render_link,            *)
(* render_image, render_list, render_task_item) and the render entry       *)
(* point render_with_plugins.                                              *)
(*                                                                         *)
(* Strings are sequences of one-character strings.  The output sink is a   *)
(* sequence of tokens: a fixed byte string written by one write_all call   *)
(* is one token, escaped text contributes one token per input character.   *)
(***************************************************************************)
EXTENDS Integers, Sequences, FiniteSets, TLC

VARIABLES
    hay,        \* matcher run: the string handed to PLACEHOLDER_REGEX
    found,      \* matcher run: is_match's answer once pc has left "is_match"
    spans,      \* matcher run: find_iter's matches once pc is "matched"
    tree,       \* the arena: node id -> node record (kind, parent, fields)
    ctx,        \* Context: render options, user data, url rewriter
    sinkLeft,   \* writes the output sink still accepts (-1: never fails)
    pc,         \* position in render_with_plugins (or in the matcher run)
    stack,      \* the walker's work stack of <<node, child rendering, phase>>
    out,        \* tokens written to the sink so far
    log,        \* one record per formatter call made by the walker
    result      \* what the render call gave its caller

vars == <<hay, found, spans, tree, ctx, sinkLeft, pc, stack, out, log, result>>

(***************************************************************************)
(* Bounds of the model.                                                    *)
(***************************************************************************)
\* longest run of word characters tried between the delimiters
MaxRun == 32
\* longest string over the full alphabet handed to the matcher
MaxFree == 4
\* most nodes on a root-to-leaf path of a rendered tree
MaxDepth == 3
\* most pieces a Text literal is put together from
MaxPieces == 3
\* largest start index of an ordered list
MaxStart == 5
\* fallible sink: most write calls accepted before one fails
MaxSinkWrites == 12
\* fallible sink: most nodes on a root-to-leaf path
MaxSinkDepth == 2

(***************************************************************************)
(* Generic helpers.                                                        *)
(***************************************************************************)
RECURSIVE Flatten(_)
Flatten(ss) == IF ss = <<>> THEN <<>> ELSE Head(ss) \o Flatten(Tail(ss))

RECURSIVE Repeat(_, _)
Repeat(c, n) == IF n = 0 THEN <<>> ELSE <<c>> \o Repeat(c, n - 1)

RECURSIVE StringsUpTo(_, _)
StringsUpTo(A, n) ==
    IF n = 0 THEN {<<>>}
    ELSE LET shorter == StringsUpTo(A, n - 1)
         IN  shorter \cup {Append(s, c) : s \in shorter, c \in A}

SetMax(S) == CHOOSE x \in S : \A y \in S : y <= x
SetMin(S) == CHOOSE x \in S : \A y \in S : x <= y

(***************************************************************************)
(* PLACEHOLDER_REGEX  =  %(\{|%7B)(\w{1,30})(}|%7D)                        *)
(***************************************************************************)
\* the characters of the model's alphabet that \w accepts
WordChars == {"a", "b", "x", "_", "7", "B", "D"}
IsWord(c) == c \in WordChars

\* the repetition bounds of \w{1,30}
MinNameLen == 1
MaxNameLen == 30

\* s[i .. i+Len(lit)-1] = lit
LitAt(s, i, lit) ==
    /\ i >= 1
    /\ i + Len(lit) - 1 <= Len(s)
    /\ SubSeq(s, i, i + Len(lit) - 1) = lit

\* (\{|%7B) tried at position i: the length it consumes, 0 when it fails
OpenLen(s, i) ==
    IF LitAt(s, i, <<"{">>) THEN 1
    ELSE IF LitAt(s, i, <<"%", "7", "B">>) THEN 3
    ELSE 0

\* (}|%7D) tried at position i: the length it consumes, 0 when it fails
CloseLen(s, i) ==
    IF LitAt(s, i, <<"}">>) THEN 1
    ELSE IF LitAt(s, i, <<"%", "7", "D">>) THEN 3
    ELSE 0

\* number of consecutive word characters of s starting at position i
RECURSIVE WordRun(_, _)
WordRun(s, i) ==
    IF i <= Len(s) /\ IsWord(s[i]) THEN 1 + WordRun(s, i + 1) ELSE 0

\* mutant of NameCloseEnd: the repetition written as \w{1,31}
NameCloseEnd_Wide(s, j) ==
    LET run == WordRun(s, j)
        ks  == {k \in MinNameLen..(MaxNameLen + 1) : k <= run /\ CloseLen(s, j + k) > 0}
    IN  IF ks = {} THEN 0
        ELSE j + SetMax(ks) + CloseLen(s, j + SetMax(ks))

\* (\w{1,30})(}|%7D) tried at position j: the greedy repetition takes the
\* longest count in 1..30 after which the closing delimiter matches.
\* The position just after the match, 0 when there is none.
NameCloseEnd(s, j) ==
    LET run == WordRun(s, j)
        ks  == {k \in MinNameLen..MaxNameLen : k <= run /\ CloseLen(s, j + k) > 0}
    IN  IF ks = {} THEN 0
        ELSE j + SetMax(ks) + CloseLen(s, j + SetMax(ks))

\* the regex anchored at position i: position just after the match, or 0
MatchAt(s, i) ==
    IF ~LitAt(s, i, <<"%">>) THEN 0
    ELSE LET o == OpenLen(s, i + 1)
         IN  IF o = 0 THEN 0 ELSE NameCloseEnd(s, i + 1 + o)

\* Regex::is_match
is_match(s) == \E i \in 1..Len(s) : MatchAt(s, i) > 0

\* Regex::find_iter: leftmost matches, scanning resumes at the end of each.
\* Each match is [start |-> first index, end |-> index after the last].
RECURSIVE FindFrom(_, _)
FindFrom(s, from) ==
    LET starts == {i \in from..Len(s) : MatchAt(s, i) > 0}
    IN  IF starts = {} THEN <<>>
        ELSE LET i == SetMin(starts)
             IN  <<[start |-> i, end |-> MatchAt(s, i)]>> \o FindFrom(s, MatchAt(s, i))

find_iter(s) == FindFrom(s, 1)

(***************************************************************************)
(* The document tree (comrak's arena of AstNode) and the render Context.   *)
(***************************************************************************)
\* A node: its NodeValue variant in kind, the fields of the variants the
\* overrides read, and its parent's id (0: node.parent() is None).
\* "Block" stands for every variant without an override (Document,
\* Paragraph, Item, ...).
MkNode(kind, literal, url, title, list_type, is_task_list, start, symbol) ==
    [kind |-> kind, parent |-> 0, literal |-> literal, url |-> url,
     title |-> title, list_type |-> list_type, is_task_list |-> is_task_list,
     start |-> start, symbol |-> symbol]

BlockNode          == MkNode("Block", <<>>, <<>>, <<>>, "none", FALSE, 0, "none")
TextNode(lit)      == MkNode("Text", lit, <<>>, <<>>, "none", FALSE, 0, "none")
LinkNode(u, t)     == MkNode("Link", <<>>, u, t, "none", FALSE, 0, "none")
ImageNode(u, t)    == MkNode("Image", <<>>, u, t, "none", FALSE, 0, "none")
ListNode(lt, k, n) == MkNode("List", <<>>, <<>>, <<>>, lt, k, n, "none")
TaskItemNode(sym)  == MkNode("TaskItem", <<>>, <<>>, <<>>, "none", FALSE, 0, sym)

Parent(n)   == tree[n].parent
Children(n) == {c \in DOMAIN tree : tree[c].parent = n}

\* node.reverse_children() pushed on the work stack leaves the first child
\* on top: the children in document order (ids grow in document order)
RECURSIVE InOrder(_)
InOrder(S) ==
    IF S = {} THEN <<>> ELSE <<SetMin(S)>> \o InOrder(S \ {SetMin(S)})

(***************************************************************************)
(* Writing to the sink: Context::escape, Context::escape_href, cr,         *)
(* render_sourcepos, dangerous_url, the URL rewriter, format_node_default. *)
(* These belong to comrak; they are modelled by their documented effect.   *)
(***************************************************************************)
EscChar(c) ==
    CASE c = "\"" -> "&quot;"
      [] c = "&"  -> "&amp;"
      [] c = "<"  -> "&lt;"
      [] c = ">"  -> "&gt;"
      [] OTHER    -> c

\* Context::escape: one output token per input character
escape(s) == [i \in 1..Len(s) |-> EscChar(s[i])]

HrefChar(c) ==
    CASE c = "&"  -> "&amp;"
      [] c = "'"  -> "&#x27;"
      [] c = "{"  -> "%7B"
      [] c = "}"  -> "%7D"
      [] c = "\"" -> "%22"
      [] c = "<"  -> "%3C"
      [] c = ">"  -> "%3E"
      [] OTHER    -> c

\* Context::escape_href
escape_href(s) == [i \in 1..Len(s) |-> HrefChar(s[i])]

\* html::dangerous_url: the URL starts with a scheme comrak refuses.  The
\* scheme prefix is one element of the model's URL strings.
dangerous_url(url) == Len(url) > 0 /\ url[1] = "javascript:"

\* URLRewriter::to_html of the configured rewriter: the model's rewriter
\* routes the URL through a proxy prefix
to_html(url) == <<"proxy?">> \o url

\* html::render_sourcepos: one attribute when options.render.sourcepos
SourceposToken == " data-sourcepos=\"..\""
render_sourcepos(n) == IF ctx.sourcepos THEN <<SourceposToken>> ELSE <<>>

\* tokens whose last byte is a line feed
EndsLf(tok) ==
    tok \in {"\n", ">\n", "\">\n", "</li>\n", "{default}\n"}

\* Context::cr writes a line feed unless the last byte written is one (or
\* nothing was written yet)
cr(o) == IF o = <<>> \/ EndsLf(o[Len(o)]) THEN <<>> ELSE <<"\n">>

\* html::format_node_default: the default formatter's output for one visit
\* is one opaque token; closing a block ends the line.
DefaultToken(n, entering) ==
    IF ~entering /\ tree[n].kind \in {"Block", "List", "TaskItem"}
    THEN "{default}\n" ELSE "{default}"

\* What one formatter call does: who handled it, the write calls it makes in
\* order (each a sequence of tokens), the ChildRendering it returns, and
\* whether it panics before writing.
Outcome(by, writes, ret) ==
    [by |-> by, writes |-> SelectSeq(writes, LAMBDA w : w /= <<>>),
     ret |-> ret, panics |-> FALSE]

Panics == [by |-> "override", writes |-> <<>>, ret |-> "HTML", panics |-> TRUE]

format_node_default(n, entering) ==
    Outcome("default", <<<<DefaultToken(n, entering)>>>>, "HTML")

(***************************************************************************)
(* The overrides.  Each gives the Outcome of one formatter call on node n  *)
(* (entering: the visit before the children, otherwise the one after).     *)
(* o is the sink's content when the call starts (cr reads its last byte).  *)
(***************************************************************************)
SpanOpen  == "<span data-placeholder>"
SpanClose == "</span>"

\* mutant of TextLoop: the cursor is left at the start of the match
RECURSIVE TextLoop_Stale(_, _, _)
TextLoop_Stale(literal, ms, cursor) ==
    IF ms = <<>>
    THEN IF cursor <= Len(literal)
         THEN <<escape(SubSeq(literal, cursor, Len(literal)))>>
         ELSE <<>>
    ELSE LET mat == Head(ms)
         IN  (IF mat.start > cursor
              THEN <<escape(SubSeq(literal, cursor, mat.start - 1))>>
              ELSE <<>>)
             \o << <<SpanOpen>>,
                   escape(SubSeq(literal, mat.start, mat.end - 1)),
                   <<SpanClose>> >>
             \o TextLoop_Stale(literal, Tail(ms), mat.start)

\* the body of render_text's for loop and the tail after it; cursor and the
\* match offsets are 1-based, a match's end is the index after its last
RECURSIVE TextLoop(_, _, _)
TextLoop(literal, ms, cursor) ==
    IF ms = <<>>
    THEN IF cursor <= Len(literal)
         THEN <<escape(SubSeq(literal, cursor, Len(literal)))>>
         ELSE <<>>
    ELSE LET mat == Head(ms)
         IN  (IF mat.start > cursor
              THEN <<escape(SubSeq(literal, cursor, mat.start - 1))>>
              ELSE <<>>)
             \o << <<SpanOpen>>,
                   escape(SubSeq(literal, mat.start, mat.end - 1)),
                   <<SpanClose>> >>
             \o TextLoop(literal, Tail(ms), mat.end)

render_text(n, entering, o) ==
    LET literal == tree[n].literal
    IN  IF ~(ctx.placeholder_detection /\ is_match(literal))
        THEN format_node_default(n, entering)
        ELSE IF Parent(n) = 0
        THEN Panics
        ELSE IF tree[Parent(n)].kind \in {"Link", "Image"}
        THEN format_node_default(n, entering)
        ELSE IF entering
        THEN Outcome("override", TextLoop(literal, find_iter(literal), 1), "HTML")
        ELSE Outcome("override", <<>>, "HTML")

\* mutant of UrlWrite: unsafe mode is not consulted
UrlWrite_NoUnsafe(url, rewriter) ==
    IF ~dangerous_url(url)
    THEN IF rewriter THEN <<escape_href(to_html(url))>> ELSE <<escape_href(url)>>
    ELSE <<>>

\* the URL as written inside href="" / src="": nothing for a dangerous URL
\* unless options.render.unsafe_, else the (rewritten) URL href-escaped
UrlWrite(url, rewriter) ==
    IF ctx.unsafe_ \/ ~dangerous_url(url)
    THEN IF rewriter THEN <<escape_href(to_html(url))>> ELSE <<escape_href(url)>>
    ELSE <<>>

\* the title attribute render_link writes after the href attribute
LinkTitleWrite(title) ==
    IF title /= <<>> THEN << <<" title=\"">>, escape(title) >> ELSE <<>>

\* mutant of LinkShown: relaxed_autolinks is not consulted
LinkShown_AnyMode(n) ==
    \/ Parent(n) = 0
    \/ tree[Parent(n)].kind /= "Link"

\* render_link's condition for writing the anchor at all
LinkShown(n) ==
    \/ ~ctx.relaxed_autolinks
    \/ Parent(n) = 0
    \/ tree[Parent(n)].kind /= "Link"

\* the writes of render_link's entering branch
LinkOpenTag(n) ==
    LET nl == tree[n]
    IN  << <<"<a">>, render_sourcepos(n), <<" href=\"">> >>
        \o UrlWrite(nl.url, ctx.link_url_rewriter)
        \o << <<"\"">> >>
        \o LinkTitleWrite(nl.title)
        \o (IF is_match(nl.url) THEN << <<" data-placeholder">> >> ELSE <<>>)
        \o << <<">">> >>

\* mutant of render_link: the nested-link test guards the entering branch only
render_link_CloseUnguarded(n, entering, o) ==
    IF ~(ctx.placeholder_detection /\ is_match(tree[n].url))
    THEN format_node_default(n, entering)
    ELSE IF entering
    THEN IF LinkShown(n) THEN Outcome("override", LinkOpenTag(n), "HTML")
         ELSE Outcome("override", <<>>, "HTML")
    ELSE Outcome("override", << <<"</a>">> >>, "HTML")

render_link(n, entering, o) ==
    IF ~(ctx.placeholder_detection /\ is_match(tree[n].url))
    THEN format_node_default(n, entering)
    ELSE IF ~LinkShown(n)
    THEN Outcome("override", <<>>, "HTML")
    ELSE IF entering
    THEN Outcome("override", LinkOpenTag(n), "HTML")
    ELSE Outcome("override", << <<"</a>">> >>, "HTML")

render_image(n, entering, o) ==
    LET nl == tree[n]
    IN  IF ~(ctx.placeholder_detection /\ is_match(nl.url))
        THEN format_node_default(n, entering)
        ELSE IF entering
        THEN Outcome("override",
                 (IF ctx.figure_with_caption THEN << <<"<figure>">> >> ELSE <<>>)
                 \o << <<"<img">>, render_sourcepos(n), <<" src=\"">> >>
                 \o UrlWrite(nl.url, ctx.image_url_rewriter)
                 \o << <<"\"">> >>
                 \o (IF is_match(nl.url) THEN << <<" data-placeholder">> >> ELSE <<>>)
                 \o << <<" alt=\"">> >>,
                 "Plain")
        ELSE Outcome("override",
                 (IF nl.title /= <<>>
                  THEN << <<"\" title=\"">>, escape(nl.title) >> ELSE <<>>)
                 \o << <<"\" />">> >>
                 \o (IF ctx.figure_with_caption
                     THEN (IF nl.title /= <<>>
                           THEN << <<"<figcaption>">>, escape(nl.title),
                                   <<"</figcaption>">> >>
                           ELSE <<>>)
                          \o << <<"</figure>">> >>
                     ELSE <<>>),
                 "HTML")

\* mutant of OlClose: start indexes 0 and 1 both taken for the default
OlClose_ZeroToo(start) ==
    IF start <= 1 THEN << <<">\n">> >>
    ELSE << <<" start=\"", ToString(start), "\">\n">> >>

\* how render_list closes the <ol tag: writeln! appends the line feed
OlClose(start) ==
    IF start = 1 THEN << <<">\n">> >>
    ELSE << <<" start=\"", ToString(start), "\">\n">> >>

TaskListClass(is_task_list) ==
    IF is_task_list THEN << <<" class=\"task-list\"">> >> ELSE <<>>

render_list(n, entering, o) ==
    LET nl == tree[n]
    IN  IF ~entering \/ ~ctx.tasklist_classes
        THEN format_node_default(n, entering)
        ELSE IF nl.list_type = "Bullet"
        THEN Outcome("override",
                 << cr(o), <<"<ul">> >> \o TaskListClass(nl.is_task_list)
                 \o << render_sourcepos(n), <<">\n">> >>,
                 "HTML")
        ELSE Outcome("override",
                 << cr(o), <<"<ol">> >> \o TaskListClass(nl.is_task_list)
                 \o << render_sourcepos(n) >> \o OlClose(nl.start),
                 "HTML")

\* mutant of TaskItemOverridden: only the lower-case x counts as checked
TaskItemOverridden_LowerOnly(symbol) ==
    /\ ctx.inapplicable_tasks
    /\ ~(symbol = "none" \/ symbol \in {"x"})

\* render_task_item's two tests before it writes anything of its own
TaskItemOverridden(symbol) ==
    /\ ctx.inapplicable_tasks
    /\ ~(symbol = "none" \/ symbol \in {"x", "X"})

render_task_item(n, entering, o) ==
    LET symbol == tree[n].symbol
    IN  IF ~TaskItemOverridden(symbol)
        THEN format_node_default(n, entering)
        ELSE IF ~entering
        THEN Outcome("override", << <<"</li>\n">> >>, "HTML")
        ELSE IF symbol = "~"
        THEN Outcome("override",
                 << cr(o), <<"<li">>, <<" class=\"inapplicable">> >>
                 \o (IF ctx.tasklist_classes
                     THEN << <<" task-list-item">> >> ELSE <<>>)
                 \o << <<"\"">>, render_sourcepos(n), <<">">>,
                       <<"<input type=\"checkbox\"">> >>
                 \o (IF ctx.tasklist_classes
                     THEN << <<" class=\"task-list-item-checkbox\"">> >> ELSE <<>>)
                 \o << <<" data-inapplicable disabled=\"\"> ">> >>,
                 "HTML")
        ELSE Outcome("override",
                 << cr(o), <<"<li">> >>
                 \o (IF ctx.tasklist_classes
                     THEN << <<" class=\"task-list-item\"">> >> ELSE <<>>)
                 \o << render_sourcepos(n), <<">">>, <<"[">>,
                       escape(<<symbol>>), <<"] ">> >>,
                 "HTML")

(***************************************************************************)
(* The walker generated by create_formatter! (comrak's                     *)
(* format_document_with_formatter) and render_with_plugins.                *)
(***************************************************************************)
Top == Head(stack)

\* the write calls of a handler reach the sink one by one until one fails
Accepted(writes) ==
    IF sinkLeft < 0 \/ Len(writes) <= sinkLeft THEN Len(writes) ELSE sinkLeft

\* mutant of Unwrap: the io::Result is dropped and the buffer returned
Unwrap_Dropped(status) == "html"

\* render_with_plugins on the walk's io::Result: unwrap() panics on an Err,
\* an Ok lets the buffer be returned as the HTML string.  The function
\* returns String: there is no error value it could give its caller.
Unwrap(status) == IF status = "ok" THEN "html" ELSE "panic"

\* One formatter call h made for the stack's top entry.  An Err from a write
\* is returned through every `?` up to render_with_plugins, whose unwrap()
\* panics; so does render_text's parent().unwrap() on a root.
Call(h) ==
    LET n       == Top.node
        k       == Accepted(h.writes)
        wrote   == Flatten(SubSeq(h.writes, 1, k))
        failed  == k < Len(h.writes)
        status  == IF h.panics THEN "panic" ELSE IF failed THEN "err" ELSE "ok"
        kids    == [i \in 1..Cardinality(Children(n)) |->
                       [node |-> InOrder(Children(n))[i], cr |-> h.ret, phase |-> "Pre"]]
    IN  /\ out' = out \o wrote
        /\ sinkLeft' = IF sinkLeft < 0 THEN sinkLeft ELSE sinkLeft - k
        /\ log' = Append(log, [node |-> n, entering |-> Top.phase = "Pre",
                               by |-> h.by, wrote |-> wrote, status |-> status])
        /\ IF status = "ok"
           THEN /\ stack' = IF Top.phase = "Pre"
                            THEN kids \o <<[Top EXCEPT !.phase = "Post"]>> \o Tail(stack)
                            ELSE Tail(stack)
                /\ UNCHANGED <<pc, result>>
           ELSE /\ pc' = "done"
                /\ result' = IF h.panics THEN "panic" ELSE Unwrap(status)
                /\ UNCHANGED stack
        /\ UNCHANGED <<hay, found, spans, tree, ctx>>

Dispatched(kind) ==
    /\ pc = "walk"
    /\ stack /= <<>>
    /\ Top.cr = "HTML"
    /\ tree[Top.node].kind = kind

VisitText     == Dispatched("Text")     /\ Call(render_text(Top.node, Top.phase = "Pre", out))
VisitLink     == Dispatched("Link")     /\ Call(render_link(Top.node, Top.phase = "Pre", out))
VisitImage    == Dispatched("Image")    /\ Call(render_image(Top.node, Top.phase = "Pre", out))
VisitList     == Dispatched("List")     /\ Call(render_list(Top.node, Top.phase = "Pre", out))
VisitTaskItem == Dispatched("TaskItem") /\ Call(render_task_item(Top.node, Top.phase = "Pre", out))
VisitOther    == Dispatched("Block")    /\ Call(format_node_default(Top.node, Top.phase = "Pre"))

\* A node below a handler that returned ChildRendering::Plain: the walker
\* writes a Text's escaped literal itself, calls no formatter for the node,
\* pushes no Post entry and passes Plain on to the node's children.
PlainWrites(n) ==
    IF tree[n].kind = "Text" /\ tree[n].literal /= <<>>
    THEN << escape(tree[n].literal) >> ELSE <<>>

PlainChild ==
    /\ pc = "walk"
    /\ stack /= <<>>
    /\ Top.cr = "Plain"
    /\ LET n      == Top.node
           w      == PlainWrites(n)
           k      == Accepted(w)
           failed == k < Len(w)
           kids   == [i \in 1..Cardinality(Children(n)) |->
                         [node |-> InOrder(Children(n))[i], cr |-> "Plain", phase |-> "Pre"]]
       IN  /\ out' = out \o Flatten(SubSeq(w, 1, k))
           /\ sinkLeft' = IF sinkLeft < 0 THEN sinkLeft ELSE sinkLeft - k
           /\ log' = Append(log, [node |-> n, entering |-> TRUE, by |-> "plain",
                                  wrote |-> Flatten(SubSeq(w, 1, k)),
                                  status |-> IF failed THEN "err" ELSE "ok"])
           /\ IF failed
              THEN pc' = "done" /\ result' = Unwrap("err") /\ UNCHANGED stack
              ELSE stack' = kids \o Tail(stack) /\ UNCHANGED <<pc, result>>
    /\ UNCHANGED <<hay, found, spans, tree, ctx>>

\* render_with_plugins up to the walk: default_html hands the text to
\* comrak::markdown_to_html_with_plugins, otherwise the root is pushed
RenderWithPlugins ==
    /\ pc = "start"
    /\ IF ctx.default_html
       THEN /\ out' = <<"{markdown_to_html}">>
            /\ pc' = "done"
            /\ result' = "html"
            /\ UNCHANGED stack
       ELSE /\ stack' = <<[node |-> 1, cr |-> "HTML", phase |-> "Pre"]>>
            /\ pc' = "walk"
            /\ UNCHANGED <<out, result>>
    /\ UNCHANGED <<hay, found, spans, tree, ctx, sinkLeft, log>>

\* the walk ended with Ok(()): the buffer is returned as the HTML string
Finish ==
    /\ pc = "walk"
    /\ stack = <<>>
    /\ pc' = "done"
    /\ result' = Unwrap("ok")
    /\ UNCHANGED <<hay, found, spans, tree, ctx, sinkLeft, stack, out, log>>

Next ==
    \/ RenderWithPlugins
    \/ VisitText
    \/ VisitLink
    \/ VisitImage
    \/ VisitList
    \/ VisitTaskItem
    \/ VisitOther
    \/ PlainChild
    \/ Finish

(***************************************************************************)
(* The inputs: trees and contexts.                                         *)
(***************************************************************************)
PlaceholderA   == <<"%", "{", "a", "}">>
PlaceholderEnc == <<"%", "%", "7", "B", "b", "%", "7", "D">>
LiteralPieces  == {PlaceholderA, PlaceholderEnc, <<"<">>, <<"x">>, <<"%">>}

RECURSIVE PiecesUpTo(_)
PiecesUpTo(n) ==
    IF n = 0 THEN {<<>>}
    ELSE PiecesUpTo(n - 1)
         \cup {s \o p : s \in PiecesUpTo(n - 1), p \in LiteralPieces}

Literals == PiecesUpTo(MaxPieces)

UrlPlain     == <<"u">>
UrlHolder    == <<"%", "{", "x", "}">>
UrlDangerous == <<"javascript:", "%", "{", "x", "}">>
Urls   == {UrlPlain, UrlHolder, UrlDangerous}
Titles == {<<>>, <<"t", "\"">>}
Symbols == {"none", "x", "X", "~", "<", "o"}

FocusValues ==
    {BlockNode}
    \cup {TextNode(l) : l \in Literals}
    \cup {LinkNode(u, t) : u \in Urls, t \in Titles}
    \cup {ImageNode(u, t) : u \in Urls, t \in Titles}
    \cup {ListNode("Bullet", k, 0) : k \in BOOLEAN}
    \cup {ListNode("Ordered", k, n) : k \in BOOLEAN, n \in 0..MaxStart}
    \cup {TaskItemNode(sym) : sym \in Symbols}

\* the nodes above the deepest one
ContextValues ==
    {BlockNode, LinkNode(UrlHolder, <<"t">>), ImageNode(UrlHolder, <<"t">>),
     TaskItemNode("~")}

RECURSIVE ChainsUpTo(_)
ChainsUpTo(n) ==
    IF n = 0 THEN {<<>>}
    ELSE ChainsUpTo(n - 1)
         \cup {Append(c, v) : c \in ChainsUpTo(n - 1), v \in ContextValues}

\* a path: node i is the only child of node i - 1, node 1 is the root
Path(nodes) == [i \in 1..Len(nodes) |-> [nodes[i] EXCEPT !.parent = i - 1]]

Trees(depth) ==
    {Path(Append(c, f)) : c \in ChainsUpTo(depth - 1), f \in FocusValues}

OptNames ==
    {"default_html", "placeholder_detection", "inapplicable_tasks",
     "relaxed_autolinks", "tasklist_classes", "unsafe_", "figure_with_caption",
     "sourcepos", "link_url_rewriter", "image_url_rewriter"}

\* the options each override reads
Reads(kind) ==
    CASE kind = "Text"     -> {"placeholder_detection"}
      [] kind = "Link"     -> {"placeholder_detection", "relaxed_autolinks", "unsafe_",
                               "sourcepos", "link_url_rewriter"}
      [] kind = "Image"    -> {"placeholder_detection", "figure_with_caption", "unsafe_",
                               "sourcepos", "image_url_rewriter"}
      [] kind = "List"     -> {"tasklist_classes", "sourcepos"}
      [] kind = "TaskItem" -> {"inapplicable_tasks", "tasklist_classes", "sourcepos"}
      [] OTHER             -> {}

\* The contexts a tree is rendered under: every setting of the options the
\* deepest node's override reads, with the two detection toggles on where it
\* does not read them and the others off; and once with default_html alone.
Contexts(t) ==
    LET free == Reads(t[Len(t)].kind)
    IN  {[o \in OptNames |->
             IF o \in free THEN o \in on
             ELSE o \in {"placeholder_detection", "inapplicable_tasks"}] :
         on \in SUBSET free}
        \cup {[o \in OptNames |-> o = "default_html"]}

NoContext == [o \in OptNames |-> FALSE]

InitRender(depth, budgets) ==
    /\ tree \in Trees(depth)
    /\ ctx \in Contexts(tree)
    /\ sinkLeft \in budgets
    /\ pc = "start"
    /\ stack = <<>>
    /\ out = <<>>
    /\ log = <<>>
    /\ result = "none"
    /\ hay = <<>>
    /\ found = FALSE
    /\ spans = <<>>

\* The formatter over any tree and any Context.  render() reaches it with
\* the tree parse_document built (a Document root, so every Text and Link
\* has a parent), without URL rewriters, and with a BufWriter over a Vec as
\* the sink, whose writes never fail; the overrides themselves take any
\* node and any Context, and that is what is modelled.
Init == InitRender(MaxDepth, {-1})

Spec == Init /\ [][Next]_vars

\* the same formatter over a sink that fails after some number of writes
InitSink == InitRender(MaxSinkDepth, 0..MaxSinkWrites)

SpecSink == InitSink /\ [][Next]_vars

(***************************************************************************)
(* The matcher on its own: PLACEHOLDER_REGEX applied to one string.        *)
(***************************************************************************)
MatchAlphabet == {"%", "{", "}", "7", "B", "D", "a"}

\* a delimiter (or a broken one), a run of word characters, a delimiter,
\* with or without text around them
FramedInputs ==
    {pre \o open \o Repeat("a", n) \o close \o post :
        pre \in {<<>>, <<"a">>, <<"%">>},
        open \in {<<"%", "{">>, <<"%", "%", "7", "B">>, <<"%", "7", "B">>, <<"{">>},
        n \in 0..MaxRun,
        close \in {<<"}">>, <<"%", "7", "D">>, <<>>},
        post \in {<<>>, <<"a">>}}

MatchInputs == FramedInputs \cup StringsUpTo(MatchAlphabet, MaxFree)

InitMatch ==
    /\ hay \in MatchInputs
    /\ found = FALSE
    /\ spans = <<>>
    /\ tree = <<>>
    /\ ctx = NoContext
    /\ sinkLeft = -1
    /\ pc = "is_match"
    /\ stack = <<>>
    /\ out = <<>>
    /\ log = <<>>
    /\ result = "none"

IsMatch ==
    /\ pc = "is_match"
    /\ found' = is_match(hay)
    /\ pc' = "find_iter"
    /\ UNCHANGED <<hay, spans, tree, ctx, sinkLeft, stack, out, log, result>>

FindIter ==
    /\ pc = "find_iter"
    /\ spans' = find_iter(hay)
    /\ pc' = "matched"
    /\ UNCHANGED <<hay, found, tree, ctx, sinkLeft, stack, out, log, result>>

NextMatch ==
    \/ IsMatch
    \/ FindIter

SpecMatch == InitMatch /\ [][NextMatch]_vars

(***************************************************************************)
(* C1: the strings the matcher accepts.                                    *)
(***************************************************************************)
\* s holds open, then k word characters for some k in lens, then close
HoldsForm(s, open, close, lens) ==
    \E i \in 1..Len(s) : \E k \in lens :
        /\ LitAt(s, i, open)
        /\ i + Len(open) + k - 1 <= Len(s)
        /\ \A p \in (i + Len(open))..(i + Len(open) + k - 1) : s[p] \in WordChars
        /\ LitAt(s, i + Len(open) + k, close)

\* s is exactly open, n word characters, close
IsFramed(s, open, close, n) == s = open \o Repeat("a", n) \o close

CallsOn(kind) ==
    {i \in DOMAIN log : log[i].by /= "plain" /\ tree[log[i].node].kind = kind}

\* the calls among them that returned Ok
OkCallsOn(kind) == {i \in CallsOn(kind) : log[i].status = "ok"}

\* a handler's output without the line feed cr() may have put first
AfterCr(w) == IF w /= <<>> /\ w[1] = "\n" THEN Tail(w) ELSE w

\* first position of token tok in w at or after position from, 0 if none
FirstAt(w, tok, from) ==
    LET at == {i \in from..Len(w) : w[i] = tok}
    IN  IF at = {} THEN 0 ELSE SetMin(at)

Has(w, tok) == \E i \in DOMAIN w : w[i] = tok

Count(w, tok) == Cardinality({i \in DOMAIN w : w[i] = tok})

\* the walk ran to its end and the HTML string was returned
Rendered == pc = "done" /\ result = "html" /\ ~ctx.default_html

(***************************************************************************)
(* C2: the title attribute of an overridden link.                          *)
(***************************************************************************)
\* the Link override's entering visit applies and writes the anchor
LinkOpens(i) ==
    /\ i \in OkCallsOn("Link")
    /\ log[i].entering
    /\ ctx.placeholder_detection
    /\ is_match(tree[log[i].node].url)
    /\ ~(ctx.relaxed_autolinks /\ Parent(log[i].node) /= 0
         /\ tree[Parent(log[i].node)].kind = "Link")

\* C2 as stated: when the title is not empty, what follows the href
\* attribute is ` title="`, the escaped title and a closing `"`, so that no
\* attribute quote is open when ` data-placeholder` and `>` are written.
C2_TitleClosed ==
    \A i \in DOMAIN log :
        (LinkOpens(i) /\ tree[log[i].node].title /= <<>>) =>
            LET w     == log[i].wrote
                title == tree[log[i].node].title
                t     == FirstAt(w, " title=\"", 1)
            IN  /\ t > 0
                /\ t + Len(title) + 1 <= Len(w)
                /\ SubSeq(w, t + 1, t + Len(title)) = escape(title)
                /\ w[t + Len(title) + 1] = "\""

(***************************************************************************)
(* C3: the Text override splits the literal around the matches.            *)
(***************************************************************************)
\* the output the claim describes, built match by match from the left
RECURSIVE SpannedText(_)
SpannedText(s) ==
    IF ~is_match(s) THEN escape(s)
    ELSE LET i == SetMin({j \in 1..Len(s) : MatchAt(s, j) > 0})
             e == MatchAt(s, i)
         IN  escape(SubSeq(s, 1, i - 1))
             \o <<SpanOpen>> \o escape(SubSeq(s, i, e - 1)) \o <<SpanClose>>
             \o SpannedText(SubSeq(s, e, Len(s)))

WithoutSpans(w) == SelectSeq(w, LAMBDA tok : tok \notin {SpanOpen, SpanClose})

\* the claim's case: detection on, a match, a parent that is neither Link
\* nor Image
TextApplies(n) ==
    /\ ctx.placeholder_detection
    /\ is_match(tree[n].literal)
    /\ Parent(n) /= 0
    /\ tree[Parent(n)].kind \notin {"Link", "Image"}

\* C3: in that case the entering visit writes the escaped text before the
\* first match, each match inside <span data-placeholder>..</span> with the
\* escaped text between matches in between, and the escaped tail; without
\* the span tags the output is the escaped literal, once and in order; there
\* is one span per match; the leaving visit writes nothing.
C3_TextSplit ==
    \A i \in OkCallsOn("Text") :
        TextApplies(log[i].node) =>
            LET literal == tree[log[i].node].literal
                w       == log[i].wrote
            IN  /\ log[i].by = "override"
                /\ log[i].entering =>
                    /\ w = SpannedText(literal)
                    /\ WithoutSpans(w) = escape(literal)
                    /\ Count(w, SpanOpen) = Len(find_iter(literal))
                    /\ Count(w, SpanClose) = Len(find_iter(literal))
                /\ ~log[i].entering => w = <<>>

\* a literal with two matches and a character to escape outside them went
\* through both visits
C3_Witness ==
    \E i \in OkCallsOn("Text") :
        /\ TextApplies(log[i].node)
        /\ ~log[i].entering
        /\ Len(find_iter(tree[log[i].node].literal)) = 2
        /\ \E j \in OkCallsOn("Text") :
              /\ log[j].node = log[i].node
              /\ log[j].entering
              /\ Count(log[j].wrote, SpanOpen) = 2
              /\ Has(log[j].wrote, "&lt;")

(***************************************************************************)
(* C4: the value inside href="" and src="".                                *)
(***************************************************************************)
\* the tokens between the attribute's opening token and the next `"`
AttrValue(w, attr) ==
    LET a == FirstAt(w, attr, 1)
        q == FirstAt(w, "\"", a + 1)
    IN  SubSeq(w, a + 1, q - 1)

\* the value the claim asks for
SafeValue(url, rewriter) ==
    IF ~ctx.unsafe_ /\ dangerous_url(url) THEN <<>>
    ELSE IF rewriter THEN escape_href(to_html(url))
    ELSE escape_href(url)

ImageOpens(i) ==
    /\ i \in OkCallsOn("Image")
    /\ log[i].entering
    /\ log[i].by = "override"

\* C4: an overridden Link writes href="" and an overridden Image src=""
\* around nothing when unsafe mode is off and the URL is dangerous, and
\* around the href-escaped (rewritten, if a rewriter is set) URL otherwise.
C4_UrlValue ==
    /\ \A i \in DOMAIN log :
          LinkOpens(i) =>
              /\ Has(log[i].wrote, " href=\"")
              /\ FirstAt(log[i].wrote, "\"", 1) > FirstAt(log[i].wrote, " href=\"", 1)
              /\ AttrValue(log[i].wrote, " href=\"")
                   = SafeValue(tree[log[i].node].url, ctx.link_url_rewriter)
    /\ \A i \in DOMAIN log :
          ImageOpens(i) =>
              /\ Has(log[i].wrote, " src=\"")
              /\ FirstAt(log[i].wrote, "\"", 1) > FirstAt(log[i].wrote, " src=\"", 1)
              /\ AttrValue(log[i].wrote, " src=\"")
                   = SafeValue(tree[log[i].node].url, ctx.image_url_rewriter)

\* a dangerous link was written with an empty href in safe mode
C4_Witness ==
    \E i \in DOMAIN log :
        /\ LinkOpens(i)
        /\ dangerous_url(tree[log[i].node].url)
        /\ ~ctx.unsafe_
        /\ AttrValue(log[i].wrote, " href=\"") = <<>>

\* a dangerous image was written with its rewritten src in unsafe mode
C4_WitnessUnsafe ==
    \E i \in DOMAIN log :
        /\ ImageOpens(i)
        /\ dangerous_url(tree[log[i].node].url)
        /\ ctx.unsafe_
        /\ ctx.image_url_rewriter
        /\ AttrValue(log[i].wrote, " src=\"")
             = <<"proxy?", "javascript:", "%", "%7B", "x", "%7D">>

(***************************************************************************)
(* C5: the TaskItem override.                                              *)
(***************************************************************************)
\* what the claim has the entering visit write for the inapplicable symbol
InapplicableItem ==
    <<"<li", " class=\"inapplicable">>
    \o (IF ctx.tasklist_classes THEN <<" task-list-item">> ELSE <<>>)
    \o <<"\"">>
    \o (IF ctx.sourcepos THEN <<SourceposToken>> ELSE <<>>)
    \o <<">", "<input type=\"checkbox\"">>
    \o (IF ctx.tasklist_classes THEN <<" class=\"task-list-item-checkbox\"">> ELSE <<>>)
    \o <<" data-inapplicable disabled=\"\"> ">>

\* and for any other symbol c
BracketedItem(c) ==
    <<"<li">>
    \o (IF ctx.tasklist_classes THEN <<" class=\"task-list-item\"">> ELSE <<>>)
    \o (IF ctx.sourcepos THEN <<SourceposToken>> ELSE <<>>)
    \o <<">", "[">> \o escape(<<c>>) \o <<"] ">>

\* C5: the TaskItem override writes its own markup exactly when the toggle
\* is on and the symbol is present and neither x nor X, and otherwise hands
\* both visits to the default formatter; its markup is the inapplicable
\* checkbox for ~, the bracketed symbol without any <input for another
\* symbol, and </li> with a line feed on leaving.
C5_TaskItem ==
    \A i \in OkCallsOn("TaskItem") :
        LET symbol == tree[log[i].node].symbol
            w      == log[i].wrote
            own    == /\ ctx.inapplicable_tasks
                      /\ symbol /= "none"
                      /\ symbol /= "x"
                      /\ symbol /= "X"
        IN  /\ (log[i].by = "override") = own
            /\ ~own => (log[i].by = "default" /\ w = <<DefaultToken(log[i].node, log[i].entering)>>)
            /\ (own /\ log[i].entering /\ symbol = "~") => AfterCr(w) = InapplicableItem
            /\ (own /\ log[i].entering /\ symbol /= "~") =>
                  /\ AfterCr(w) = BracketedItem(symbol)
                  /\ ~Has(w, "<input type=\"checkbox\"")
            /\ (own /\ ~log[i].entering) => w = <<"</li>\n">>

\* an inapplicable item and its class were written with tasklist classes on,
\* and the item was closed
C5_Witness ==
    \E i \in OkCallsOn("TaskItem") :
        /\ tree[log[i].node].symbol = "~"
        /\ ctx.tasklist_classes
        /\ ~log[i].entering
        /\ log[i].wrote = <<"</li>\n">>
        /\ Has(out, " task-list-item")
        /\ Has(out, " data-inapplicable disabled=\"\"> ")

\* an unrecognised symbol was written in brackets, escaped
C5_WitnessCustom ==
    \E i \in OkCallsOn("TaskItem") :
        /\ tree[log[i].node].symbol = "<"
        /\ log[i].entering
        /\ log[i].wrote = <<"<li", ">", "[", "&lt;", "] ">>

(***************************************************************************)
(* C6: a placeholder link inside a link under relaxed autolinks.           *)
(***************************************************************************)
\* C6: where the Link override applies, relaxed autolinks with a Link parent
\* make both visits write nothing; otherwise the entering visit writes the
\* opening tag <a ...> and the leaving visit </a>.
C6_NestedLink ==
    \A i \in OkCallsOn("Link") :
        LET n == log[i].node
            w == log[i].wrote
        IN  (ctx.placeholder_detection /\ is_match(tree[n].url)) =>
                IF /\ ctx.relaxed_autolinks
                   /\ Parent(n) /= 0
                   /\ tree[Parent(n)].kind = "Link"
                THEN w = <<>>
                ELSE IF log[i].entering
                THEN w /= <<>> /\ w[1] = "<a" /\ w[Len(w)] = ">"
                     /\ Count(w, "<a") = 1 /\ Count(w, ">") = 1
                ELSE w = <<"</a>">>

\* a link nested in a link was rendered under relaxed autolinks: the outer
\* one wrote its tags, the inner one nothing on either visit
C6_Witness ==
    /\ Rendered
    /\ ctx.relaxed_autolinks
    /\ \E i, j \in OkCallsOn("Link") :
          /\ log[i].node = log[j].node
          /\ log[i].entering /\ ~log[j].entering
          /\ log[i].by = "override"
          /\ Parent(log[i].node) /= 0
          /\ tree[Parent(log[i].node)].kind = "Link"
          /\ log[i].wrote = <<>> /\ log[j].wrote = <<>>
    /\ Count(out, "<a") = 1
    /\ Count(out, "</a>") = 1

(***************************************************************************)
(* C7: the opening tag of an ordered list.                                 *)
(***************************************************************************)
\* C7: with tasklist classes on, the entering visit of an ordered list
\* writes <ol, class="task-list" exactly for a task list, the source
\* position if any, and closes the tag with start="N"> unless N is 1; the
\* leaving visit, and both visits with tasklist classes off, go to the
\* default formatter.
C7_OrderedList ==
    \A i \in OkCallsOn("List") :
        LET nl == tree[log[i].node]
            w  == log[i].wrote
        IN  nl.list_type = "Ordered" =>
                IF ctx.tasklist_classes /\ log[i].entering
                THEN /\ log[i].by = "override"
                     /\ AfterCr(w) =
                          <<"<ol">>
                          \o (IF nl.is_task_list THEN <<" class=\"task-list\"">> ELSE <<>>)
                          \o (IF ctx.sourcepos THEN <<SourceposToken>> ELSE <<>>)
                          \o (IF nl.start = 1 THEN <<">\n">>
                              ELSE <<" start=\"", ToString(nl.start), "\">\n">>)
                ELSE /\ log[i].by = "default"
                     /\ w = <<DefaultToken(log[i].node, log[i].entering)>>

\* the ordered task list starting at 5 of the specification's example
C7_Witness ==
    \E i \in OkCallsOn("List") :
        /\ ctx.tasklist_classes
        /\ log[i].entering
        /\ log[i].wrote = <<"<ol", " class=\"task-list\"", " start=\"", "5", "\">\n">>

\* an ordered list starting at 1 under a paragraph-like parent
C7_WitnessOne ==
    \E i \in OkCallsOn("List") :
        /\ ctx.tasklist_classes
        /\ log[i].entering
        /\ log[i].wrote = <<"\n", "<ol", ">\n">>

OutBefore(i) == Flatten([j \in 1..(i - 1) |-> log[j].wrote])

\* everything call i writes when no write fails
FullWrites(i) ==
    LET n == log[i].node
        e == log[i].entering
        o == OutBefore(i)
        k == tree[n].kind
    IN  IF log[i].by = "plain" THEN Flatten(PlainWrites(n))
        ELSE Flatten((CASE k = "Text"     -> render_text(n, e, o)
                        [] k = "Link"     -> render_link(n, e, o)
                        [] k = "Image"    -> render_image(n, e, o)
                        [] k = "List"     -> render_list(n, e, o)
                        [] k = "TaskItem" -> render_task_item(n, e, o)
                        [] OTHER          -> format_node_default(n, e)).writes)

\* the call in progress stopped at the failed write, no call followed it and
\* the sink holds nothing written after it
AbortedAt(i) ==
    /\ i = Len(log)
    /\ pc = "done"
    /\ Len(log[i].wrote) < Len(FullWrites(i))
    /\ log[i].wrote = SubSeq(FullWrites(i), 1, Len(log[i].wrote))
    /\ out = OutBefore(i) \o log[i].wrote

Paired == {"Link", "Image", "TaskItem"}

EnterCalls(n) == {i \in DOMAIN log : log[i].node = n /\ log[i].by /= "plain" /\ log[i].entering}
LeaveCalls(n) == {i \in DOMAIN log : log[i].node = n /\ log[i].by /= "plain" /\ ~log[i].entering}

\* the closing an override owes for what its entering visit opened
Closes(e, l) ==
    /\ Has(e, "<a") = Has(l, "</a>")
    /\ Has(e, "<li") = Has(l, "</li>\n")
    /\ Has(e, "<figure>") = Has(l, "</figure>")
    /\ Has(e, " alt=\"") = (l /= <<>> /\ l[1] \in {"\" />", "\" title=\""})

\* C10: each Link, Image and TaskItem node is visited at most once each way,
\* leaving after entering and by the same side; an override's leaving visit
\* closes exactly what its entering visit opened (<a, <li, <figure>, the
\* alt=" quote); only such a leaving visit writes those closings; and once
\* the walk is complete every entered node has been left.
C10_VisitsPair ==
    /\ \A n \in DOMAIN tree :
          tree[n].kind \in Paired =>
              /\ Cardinality(EnterCalls(n)) <= 1
              /\ Cardinality(LeaveCalls(n)) <= 1
              /\ \A l \in LeaveCalls(n) :
                    \E e \in EnterCalls(n) :
                        /\ e < l
                        /\ log[e].by = log[l].by
                        /\ log[l].by = "override" => Closes(log[e].wrote, log[l].wrote)
              /\ Rendered => Cardinality(LeaveCalls(n)) = Cardinality(EnterCalls(n))
    /\ \A i \in DOMAIN log :
          (/\ log[i].by = "override"
           /\ \/ Has(log[i].wrote, "</a>")
              \/ Has(log[i].wrote, "</li>\n")
              \/ Has(log[i].wrote, "</figure>")
              \/ Has(log[i].wrote, "\" />"))
          => (~log[i].entering /\ tree[log[i].node].kind \in Paired)

\* a task item holding a link holding an image, all three overridden, was
\* rendered to the end
C10_Witness ==
    /\ Rendered
    /\ \A tok \in {"<li", "</li>\n", "<a", "</a>", "<figure>", "</figure>",
                   " alt=\"", "\" />"} : Count(out, tok) = 1

====
